---- MODULE Spec2Model ----
(***************************************************************************)
(* Perk request handlers (perkController.js): validation with the Joi      *)
(* schema, create / update / delete against the Perks collection, and the  *)
(* public list with creator resolution against the Users collection.       *)
(*                                                                         *)
(* Strings are sequences of one-character strings, so that toLowerCase,    *)
(* includes('@'), trim and length are computed and not assumed.            *)
(* A document is a function from its field names to values; an absent      *)
(* field is a name outside the function's domain.                          *)
(***************************************************************************)
EXTENDS Integers, Sequences, FiniteSets, TLC

VARIABLES
    perks,    \* Perks collection: _id -> document, or NoPerk
    nextId,   \* next _id the store hands out (identifiers are never reused)
    users,    \* Users collection: a set of user documents
    upd,      \* one update request per updater: where it is, and its answer
    last,     \* request and answer of the last create / delete / public list
    nreq,     \* number of requests started
    origin    \* _id -> caller identity of the create that inserted the perk

vars == <<perks, nextId, users, upd, last, nreq, origin>>

\* ---------------------------------------------------------------------------
\* Bounds
\* ---------------------------------------------------------------------------
MaxPerks == 2
NumUpdaters == 2
MaxReqs == 2

PerkIds == 1..MaxPerks
Updaters == 1..NumUpdaters

\* ---------------------------------------------------------------------------
\* Strings
\* ---------------------------------------------------------------------------
ToLowerChar(c) ==
    CASE c = "A" -> "a"
      [] c = "B" -> "b"
      [] c = "C" -> "c"
      [] OTHER -> c

ToLowerCase(s) == [i \in 1..Len(s) |-> ToLowerChar(s[i])]

Includes(s, c) == \E i \in 1..Len(s) : s[i] = c

RECURSIVE TrimStart(_)
TrimStart(s) == IF s # <<>> /\ Head(s) = " " THEN TrimStart(Tail(s)) ELSE s

RECURSIVE TrimEnd(_)
TrimEnd(s) ==
    IF s # <<>> /\ s[Len(s)] = " " THEN TrimEnd(SubSeq(s, 1, Len(s) - 1)) ELSE s

Trim(s) == TrimEnd(TrimStart(s))

\* the { $regex: needle, $options: 'i' } match on a title (no metacharacters
\* in the alphabet): a case-insensitive substring test
RegexMatchI(s, needle) ==
    \E i \in 1..(Len(s) - Len(needle) + 1) :
        ToLowerCase(SubSeq(s, i, i + Len(needle) - 1)) = ToLowerCase(needle)

HexChars == {"0", "1", "2", "3", "4", "5", "6", "7", "8", "9",
             "a", "b", "c", "d", "e", "f", "A", "B", "C", "D", "E", "F"}

\* mongoose.Types.ObjectId.isValid on a string: 24 hexadecimal characters
ObjectIdIsValid(s) == Len(s) = 24 /\ \A i \in 1..Len(s) : s[i] \in HexChars

\* a well-formed identifier that ends in the character c
OID(c) == [i \in 1..24 |-> IF i = 24 THEN c ELSE "0"]

\* ---------------------------------------------------------------------------
\* Values
\* ---------------------------------------------------------------------------
Null == [kind |-> "null"]
Str(s) == [kind |-> "str", s |-> s]
NoPerk == [kind |-> "none"]

Has(doc, k) == k \in DOMAIN doc

\* { ...a, ...b }
Spread(a, b) ==
    [k \in DOMAIN a \cup DOMAIN b |-> IF k \in DOMAIN b THEN b[k] ELSE a[k]]

Pick(doc, ks) == [k \in DOMAIN doc \cap ks |-> doc[k]]

\* JavaScript truthiness of a createdBy value: undefined, null and '' are falsy
Truthy(doc, k) == Has(doc, k) /\ doc[k] # Null /\ doc[k] # Str(<<>>)

\* ---------------------------------------------------------------------------
\* perkSchema
\* ---------------------------------------------------------------------------
Categories == {"food", "tech", "travel", "fitness", "other"}
CategoryDefault == "other"

SchemaOrder == <<"title", "description", "category", "discountPercent",
                 "merchant", "ccreatedBy">>
SchemaKeys == {SchemaOrder[i] : i \in 1..Len(SchemaOrder)}

\* the rule of one schema key applied to a document
KeyViolated(doc, k) ==
    CASE k = "title" -> ~Has(doc, k) \/ Len(doc[k]) < 2
      [] k = "description" -> FALSE
      [] k = "category" -> Has(doc, k) /\ doc[k] \notin Categories
      [] k = "discountPercent" -> Has(doc, k) /\ ~(doc[k] >= 0 /\ doc[k] <= 100)
      [] k = "merchant" -> FALSE
      [] k = "ccreatedBy" -> Has(doc, k)

WithDefaults(doc) ==
    Spread([category |-> CategoryDefault, discountPercent |-> 0], doc)

\* perkSchema.validate(doc, { abortEarly, stripUnknown, convert: true }):
\* error is the set of keys reported (empty: no error)
Validate(doc, abortEarly, stripUnknown) ==
    LET bad == {k \in SchemaKeys : KeyViolated(doc, k)}
        unknown == IF stripUnknown THEN {} ELSE DOMAIN doc \ SchemaKeys
        firstBad == SchemaOrder[CHOOSE i \in 1..Len(SchemaOrder) :
                        /\ SchemaOrder[i] \in bad
                        /\ \A j \in 1..(i - 1) : SchemaOrder[j] \notin bad]
        all == bad \cup unknown
        reported == IF ~abortEarly \/ all = {} THEN all
                    ELSE IF bad # {} THEN {firstBad}
                    ELSE {CHOOSE k \in unknown : TRUE}
        kept == IF stripUnknown THEN Pick(doc, SchemaKeys) ELSE doc
    IN [error |-> reported, value |-> WithDefaults(kept)]

\* ---------------------------------------------------------------------------
\* Request inputs
\* ---------------------------------------------------------------------------
\* req.user as the authentication middleware leaves it
NoUser == [kind |-> "nouser"]
ReqUsers == {NoUser, [kind |-> "user"],
             [kind |-> "user", id |-> OID("1")],
             [kind |-> "user", id |-> OID("2")]}

\* req.body
Bodies ==
    { [title |-> <<"a", "b">>],
      [title |-> <<"a", "b">>, description |-> <<>>, category |-> "tech",
       discountPercent |-> 50, merchant |-> <<"m">>],
      [title |-> <<"a">>, discountPercent |-> 101],
      [discountPercent |-> 50],
      [discountPercent |-> 101],
      [category |-> "tech"],
      [createdBy |-> Str(OID("2"))],
      [title |-> <<"a", "b">>, createdBy |-> Str(OID("2"))],
      [title |-> <<"a", "b">>, ccreatedBy |-> Str(OID("2"))] }

\* req.query.search and req.query.merchant
NoParam == [kind |-> "noparam"]
Searches == {NoParam, Str(<<" ">>), Str(<<"a">>), Str(<<"z">>)}
Merchants == {NoParam, Str(<<"m", " ">>)}

\* ---------------------------------------------------------------------------
\* The store
\* ---------------------------------------------------------------------------
Stored(ps) == {ps[i] : i \in {j \in DOMAIN ps : ps[j] # NoPerk}}

\* the unique index of the Perks collection ("Duplicate perk for this merchant")
DupKey(doc) == <<doc.title, IF Has(doc, "merchant") THEN Str(doc.merchant) ELSE Null>>

DuplicateKey(ps, doc, self) ==
    \E i \in DOMAIN ps : i # self /\ ps[i] # NoPerk /\ DupKey(ps[i]) = DupKey(doc)

\* ---------------------------------------------------------------------------
\* createPerk
\* ---------------------------------------------------------------------------
\* Perk.create(value), the owner forgotten
CreateDocNoOwner(value, user) == value

\* { ...value, createdBy: req.user.id }
CreateDoc(value, user) ==
    IF Has(user, "id") THEN Spread(value, [createdBy |-> Str(user.id)])
    ELSE Pick(value, DOMAIN value \ {"createdBy"})

\* Perk.create(doc): the store assigns _id and createdAt
Inserted(ps, id, doc) ==
    [ps EXCEPT ![id] = Spread(doc, [_id |-> id, createdAt |-> id])]

\* the document is inserted first and the payload validated afterwards
CreatePerkWriteFirst(user, body) ==
    LET v == Validate(body, TRUE, FALSE)
        doc == CreateDoc(WithDefaults(body), user)
        req == [op |-> "create", n |-> nreq + 1, user |-> user, body |-> body]
    IN /\ nreq < MaxReqs
       /\ nreq' = nreq + 1
       /\ UNCHANGED <<users, upd>>
       /\ user # NoUser /\ Has(body, "title") /\ nextId <= MaxPerks
       /\ perks' = Inserted(perks, nextId, doc)
       /\ nextId' = nextId + 1
       /\ origin' = [origin EXCEPT ![nextId] = user]
       /\ last' = IF v.error # {}
                  THEN Spread(req, [status |-> 400, error |-> v.error])
                  ELSE Spread(req, [status |-> 201, id |-> nextId,
                                    perk |-> Inserted(perks, nextId, doc)[nextId]])

CreatePerk(user, body) ==
    LET v == Validate(body, TRUE, FALSE)
        doc == CreateDoc(v.value, user)
        req == [op |-> "create", n |-> nreq + 1, user |-> user, body |-> body]
    IN /\ nreq < MaxReqs
       /\ nreq' = nreq + 1
       /\ UNCHANGED <<users, upd>>
       /\ IF v.error # {}
          THEN /\ last' = Spread(req, [status |-> 400, error |-> v.error])
               /\ UNCHANGED <<perks, nextId, origin>>
          ELSE IF user = NoUser
          THEN \* req.user.id throws; the catch forwards it with next(err)
               /\ last' = Spread(req, [status |-> 500])
               /\ UNCHANGED <<perks, nextId, origin>>
          ELSE \/ \* a Perk model that requires createdBy rejects the document
                  /\ ~Has(doc, "createdBy")
                  /\ last' = Spread(req, [status |-> 500])
                  /\ UNCHANGED <<perks, nextId, origin>>
               \/ \* E11000 from the unique index
                  /\ DuplicateKey(perks, doc, 0)
                  /\ last' = Spread(req, [status |-> 409])
                  /\ UNCHANGED <<perks, nextId, origin>>
               \/ /\ ~DuplicateKey(perks, doc, 0)
                  /\ nextId <= MaxPerks
                  /\ perks' = Inserted(perks, nextId, doc)
                  /\ nextId' = nextId + 1
                  /\ origin' = [origin EXCEPT ![nextId] = user]
                  /\ last' = Spread(req, [status |-> 201, id |-> nextId,
                                          perk |-> Inserted(perks, nextId, doc)[nextId]])

\* ---------------------------------------------------------------------------
\* deletePerk
\* ---------------------------------------------------------------------------
DeletePerk(id) ==
    /\ nreq < MaxReqs
    /\ nreq' = nreq + 1
    /\ UNCHANGED <<users, upd, nextId, origin>>
    /\ IF perks[id] = NoPerk
       THEN /\ last' = [op |-> "delete", n |-> nreq + 1, id |-> id, status |-> 404]
            /\ UNCHANGED perks
       ELSE /\ perks' = [perks EXCEPT ![id] = NoPerk]
            /\ last' = [op |-> "delete", n |-> nreq + 1, id |-> id, status |-> 200]

\* ---------------------------------------------------------------------------
\* updatePerk
\* ---------------------------------------------------------------------------
Idle == [pc |-> "idle"]

\* { $set: <the validated fields the payload named> }
SetDocIncomingOnly(value, body) == Pick(value, DOMAIN body)

\* the update document of findByIdAndUpdate: { $set: value }
SetDoc(value, body) == value

\* findById, merge, validate; the request is answered here (404, 400) or goes
\* on to findByIdAndUpdate with the validated value
UpdateLoad(u, id, body) ==
    LET existing == perks[id]
        updatedData == Spread(existing, body)
        v == Validate(updatedData, FALSE, TRUE)
        req == [n |-> nreq + 1, id |-> id, body |-> body]
    IN /\ upd[u].pc # "writing"
       /\ nreq < MaxReqs
       /\ nreq' = nreq + 1
       /\ UNCHANGED <<perks, nextId, users, last, origin>>
       /\ upd' = [upd EXCEPT ![u] =
            IF existing = NoPerk
            THEN Spread(req, [pc |-> "done", status |-> 404, stage |-> "load"])
            ELSE IF v.error # {}
            THEN Spread(req, [pc |-> "done", status |-> 400, stage |-> "load",
                              loaded |-> existing, error |-> v.error])
            ELSE Spread(req, [pc |-> "writing", loaded |-> existing,
                              set |-> SetDoc(v.value, body)])]

\* the stored document is overwritten by the validated fields
FindByIdAndOverwrite(ps, id, set) ==
    IF ps[id] = NoPerk
    THEN [perks |-> ps, status |-> 404]
    ELSE LET doc == Spread(Pick(ps[id], {"_id", "createdAt"}), set)
         IN [perks |-> [ps EXCEPT ![id] = doc], status |-> 200, perk |-> doc]

\* findByIdAndUpdate with { upsert: true }
FindByIdAndUpsert(ps, id, set) ==
    LET old == IF ps[id] = NoPerk THEN [_id |-> id, createdAt |-> id] ELSE ps[id]
    IN [perks |-> [ps EXCEPT ![id] = Spread(old, set)], status |-> 200,
        perk |-> Spread(old, set)]

\* findByIdAndUpdate(id, { $set: set }, { new: true, runValidators: true }) on
\* the collection ps: the collection afterwards and the answer
FindByIdAndUpdate(ps, id, set) ==
    IF ps[id] = NoPerk
    THEN [perks |-> ps, status |-> 404]
    ELSE IF DuplicateKey(ps, Spread(ps[id], set), id)
    THEN \* E11000 is forwarded with next(err)
         [perks |-> ps, status |-> 500]
    ELSE [perks |-> [ps EXCEPT ![id] = Spread(ps[id], set)], status |-> 200,
          perk |-> Spread(ps[id], set)]

UpdateWrite(u) ==
    LET r == FindByIdAndUpdate(perks, upd[u].id, upd[u].set)
        req == Pick(upd[u], {"n", "id", "body", "loaded", "set"})
    IN /\ upd[u].pc = "writing"
       /\ UNCHANGED <<nextId, users, last, nreq, origin>>
       /\ perks' = r.perks
       /\ upd' = [upd EXCEPT ![u] =
            Spread(req, Spread([pc |-> "done", stage |-> "write"],
                               Pick(r, {"status", "perk"})))]

\* ---------------------------------------------------------------------------
\* getAllPerksPublic
\* ---------------------------------------------------------------------------
\* a query parameter that is present and not blank
Given(param) == param # NoParam /\ Trim(param.s) # <<>>

\* Perk.find(query)
Matches(doc, search, merchant) ==
    /\ Given(search) => RegexMatchI(doc.title, Trim(search.s))
    /\ Given(merchant) => Has(doc, "merchant") /\ doc.merchant = Trim(merchant.s)

\* .sort({ createdAt: -1 })
RECURSIVE SortNewestFirst(_)
SortNewestFirst(docs) ==
    IF docs = {} THEN <<>>
    ELSE LET newest == CHOOSE d \in docs : \A e \in docs : e.createdAt <= d.createdAt
         IN <<newest>> \o SortNewestFirst(docs \ {newest})

\* String(p.createdBy)
Cb(p) == p.createdBy.s

\* the keys that are not identifiers, in the order the Set keeps them
RECURSIVE StringKeys(_)
StringKeys(ps) ==
    IF ps = <<>> THEN <<>>
    ELSE LET rest == StringKeys(SubSeq(ps, 1, Len(ps) - 1))
             p == ps[Len(ps)]
         IN IF Truthy(p, "createdBy") /\ ~ObjectIdIsValid(Cb(p))
                 /\ ~\E i \in 1..Len(rest) : rest[i] = Cb(p)
            THEN Append(rest, Cb(p))
            ELSE rest

IdSet(ps) ==
    {Cb(ps[i]) : i \in {j \in 1..Len(ps) :
                          Truthy(ps[j], "createdBy") /\ ObjectIdIsValid(Cb(ps[j]))}}

\* .select('name email').lean()
Projected(u) == Pick(u, {"_id", "name", "email"})

\* User.findOne for one legacy key: the documents it may return (Null: none)
FindOneByKey(us, key) ==
    LET found == IF Includes(key, "@")
                 THEN {u \in us : Has(u, "email") /\ u.email = ToLowerCase(key)}
                 ELSE {u \in us : Has(u, "name") /\ u.name = key}
    IN IF found = {} THEN {Null} ELSE {Projected(u) : u \in found}

\* u.email?.toLowerCase() || u.name
MapKey(u) ==
    IF Has(u, "email") /\ u.email # <<>> THEN ToLowerCase(u.email) ELSE u.name

\* new Map(list.map(u => [MapKey(u), u])): a later entry replaces an earlier one
UserMapByKey(list) ==
    [k \in {MapKey(list[i]) : i \in 1..Len(list)} |->
        list[CHOOSE i \in 1..Len(list) :
                /\ MapKey(list[i]) = k
                /\ \A j \in (i + 1)..Len(list) : MapKey(list[j]) # k]]

UserMapById(us) == [id \in {u._id : u \in us} |-> CHOOSE u \in us : u._id = id]

\* an unresolved createdBy is left as it is
AttachKeepRaw(p, byId, byKey) ==
    IF ~Truthy(p, "createdBy") THEN p
    ELSE IF Cb(p) \in DOMAIN byId
    THEN [p EXCEPT !.createdBy = byId[Cb(p)]]
    ELSE IF Cb(p) \in DOMAIN byKey
    THEN [p EXCEPT !.createdBy = byKey[Cb(p)]]
    ELSE p

\* the replacement of one perk's createdBy
Attach(p, byId, byKey) ==
    IF ~Truthy(p, "createdBy") THEN p
    ELSE IF Cb(p) \in DOMAIN byId
    THEN [p EXCEPT !.createdBy = byId[Cb(p)]]
    ELSE IF Cb(p) \in DOMAIN byKey
    THEN [p EXCEPT !.createdBy = byKey[Cb(p)]]
    ELSE IF ToLowerCase(Cb(p)) \in DOMAIN byKey
    THEN [p EXCEPT !.createdBy = byKey[ToLowerCase(Cb(p))]]
    ELSE [p EXCEPT !.createdBy = Null]

GetAllPerksPublic(search, merchant) ==
    LET found == SortNewestFirst({d \in Stored(perks) : Matches(d, search, merchant)})
        keys == StringKeys(found)
        usersById == {Projected(u) : u \in {w \in users : w._id \in IdSet(found)}}
    IN /\ nreq < MaxReqs
       /\ nreq' = nreq + 1
       /\ UNCHANGED <<perks, nextId, users, upd, origin>>
       /\ \E resolved \in [1..Len(keys) -> {Projected(u) : u \in users} \cup {Null}] :
            /\ \A i \in 1..Len(keys) : resolved[i] \in FindOneByKey(users, keys[i])
            /\ LET usersByString == SelectSeq(resolved, LAMBDA r : r # Null)
                   byId == UserMapById(usersById)
                   byKey == UserMapByKey(usersByString)
               IN last' = [op |-> "list", n |-> nreq + 1, status |-> 200,
                           stored |-> found,
                           perks |-> [i \in 1..Len(found) |->
                                        Attach(found[i], byId, byKey)]]

\* ---------------------------------------------------------------------------
\* Initial states and specifications
\* ---------------------------------------------------------------------------
UserBo == [_id |-> OID("1"), name |-> <<"b", "o">>, email |-> <<"b", "o", "@", "x">>]
UserAl == [_id |-> OID("2"), name |-> <<"A", "l">>, email |-> <<"A", "l", "@", "x">>]
UserCy == [_id |-> OID("3"), name |-> <<"c", "y">>]
UserPool == {UserBo, UserAl, UserCy}

\* what the owner field of an older record may hold
LegacyOwners ==
    { Null, Str(<<>>),
      Str(OID("1")), Str(OID("9")),
      Str(<<"b", "o">>), Str(<<"c", "y">>), Str(<<"z">>),
      Str(<<"b", "o", "@", "x">>), Str(<<"B", "O", "@", "x">>),
      Str(<<"A", "l", "@", "x">>) }

\* older records have distinct titles ("Ab", "Abb", ...), as the unique index asks
LegacyPerk(id) ==
    [_id |-> id, title |-> [i \in 1..(id + 1) |-> IF i = 1 THEN "A" ELSE "b"],
     category |-> "food",
     discountPercent |-> 10, createdAt |-> id]

LegacyPerks(id) ==
    {LegacyPerk(id)} \cup {Spread(LegacyPerk(id), [createdBy |-> o]) : o \in LegacyOwners}

InitRequests ==
    /\ upd = [u \in Updaters |-> Idle]
    /\ last = [op |-> "none", n |-> 0]
    /\ nreq = 0
    /\ origin = [i \in PerkIds |-> NoUser]

\* a store that holds one older record owned by a user name
Init ==
    /\ perks = [i \in PerkIds |->
                  IF i = 1 THEN Spread(LegacyPerk(1), [createdBy |-> Str(<<"b", "o">>)])
                  ELSE NoPerk]
    /\ nextId = 2
    /\ users = UserPool
    /\ InitRequests

Next ==
    \/ \E user \in ReqUsers, body \in Bodies : CreatePerk(user, body)
    \/ \E u \in Updaters, id \in PerkIds, body \in Bodies : UpdateLoad(u, id, body)
    \/ \E u \in Updaters : UpdateWrite(u)
    \/ \E id \in PerkIds : DeletePerk(id)
    \/ \E search \in Searches, merchant \in Merchants : GetAllPerksPublic(search, merchant)

Spec == Init /\ [][Next]_vars

\* any two older records (the second may be missing) and any subset of the users
InitResolve ==
    /\ perks \in [PerkIds -> UNION {LegacyPerks(i) : i \in PerkIds} \cup {NoPerk}]
    /\ \A i \in PerkIds :
          /\ i = 1 => perks[i] \in LegacyPerks(i)
          /\ i = 2 => perks[i] \in LegacyPerks(i) \cup {NoPerk}
          /\ i > 2 => perks[i] = NoPerk
    /\ nextId = 3
    /\ users \in SUBSET UserPool
    /\ InitRequests

NextResolve ==
    \/ \E id \in PerkIds : DeletePerk(id)
    \/ \E search \in Searches, merchant \in Merchants : GetAllPerksPublic(search, merchant)

SpecResolve == InitResolve /\ [][NextResolve]_vars

\* ---------------------------------------------------------------------------
\* Properties
\* ---------------------------------------------------------------------------
SameField(a, b, k) == (Has(a, k) <=> Has(b, k)) /\ (Has(a, k) => a[k] = b[k])

\* updater u's findByIdAndUpdate is applied in this step and answers 200
WriteOk(u) ==
    /\ upd[u].pc = "writing"
    /\ upd'[u].pc = "done"
    /\ upd'[u].status = 200

\* the request record r is that of the request this step starts
Answers(r) == nreq' = nreq + 1 /\ Has(r, "n") /\ r.n = nreq'

IsUserRecord(v) == Has(v, "_id") /\ v \in {Projected(w) : w \in users}

\* C1: every perk inserted by a create answered 201 has createdBy equal to the
\* identity of that create's caller, a category among the five values and a
\* discountPercent within [0,100], whatever creates, updates and deletes follow;
\* the document the create answers with has category "other" and discountPercent 0
\* where the payload omitted them.
CreatedPerkOwnerAndRanges ==
    /\ \A id \in PerkIds :
          (origin[id] # NoUser /\ perks[id] # NoPerk) =>
              /\ Has(origin[id], "id") =>
                    Has(perks[id], "createdBy") /\ perks[id].createdBy = Str(origin[id].id)
              /\ ~Has(origin[id], "id") => ~Has(perks[id], "createdBy")
              /\ Has(perks[id], "category") /\ perks[id].category \in Categories
              /\ Has(perks[id], "discountPercent")
              /\ perks[id].discountPercent >= 0 /\ perks[id].discountPercent <= 100
    /\ (last.op = "create" /\ last.status = 201) =>
          /\ origin[last.id] = last.user
          /\ ~Has(last.body, "createdBy")
          /\ Has(last.user, "id") =>
                Has(last.perk, "createdBy") /\ last.perk.createdBy = Str(last.user.id)
          /\ ~Has(last.user, "id") => ~Has(last.perk, "createdBy")
          /\ ~Has(last.body, "category") => last.perk.category = "other"
          /\ ~Has(last.body, "discountPercent") => last.perk.discountPercent = 0

\* a perk inserted by a create with defaults has since been updated with success
CreatedPerkThenUpdated ==
    \E u \in Updaters :
        /\ upd[u].pc = "done" /\ upd[u].status = 200
        /\ origin[upd[u].id] # NoUser /\ Has(origin[upd[u].id], "id")
        /\ perks[upd[u].id] # NoPerk
        /\ perks[upd[u].id].createdBy = Str(origin[upd[u].id].id)
        /\ perks[upd[u].id].discountPercent = 50

NameKeyResolves ==
    last.op = "list" =>
        \A i \in 1..Len(last.perks) :
            LET p == last.stored[i]
                named == {w \in users : Truthy(p, "createdBy") /\ w.name = Cb(p)}
            IN (Truthy(p, "createdBy") /\ ~Includes(Cb(p), "@") /\ named # {}) =>
                   last.perks[i].createdBy \in {Projected(w) : w \in named}

\* C4: in the public list a perk whose createdBy is a free-text email is answered
\* with the record of the user whose email equals it up to letter case, for any
\* letter case of the key and of the stored email.
EmailKeyResolves ==
    last.op = "list" =>
        \A i \in 1..Len(last.perks) :
            LET p == last.stored[i]
                mailed == {w \in users : /\ Truthy(p, "createdBy")
                                         /\ Has(w, "email")
                                         /\ ToLowerCase(w.email) = ToLowerCase(Cb(p))}
            IN (Truthy(p, "createdBy") /\ Includes(Cb(p), "@") /\ mailed # {}) =>
                   last.perks[i].createdBy \in {Projected(w) : w \in mailed}

\* C5 as stated: a successful update whose payload holds only discountPercent sets
\* the stored discountPercent and leaves every other field of that perk and every
\* other perk as they were just before the write.
UpdateDiscountOnlyFrame ==
    [][\A u \in Updaters :
          (WriteOk(u) /\ DOMAIN upd[u].body = {"discountPercent"}) =>
              perks' = [perks EXCEPT ![upd[u].id] =
                           [@ EXCEPT !.discountPercent = upd[u].body.discountPercent]]]_vars

\* C5 amended: such an update sets discountPercent to the payload's value, sets
\* title, description, category and merchant to the values of the document it
\* loaded, and leaves _id, createdBy, createdAt and every other perk unchanged; so
\* every other field is unchanged when the perk was not written between the
\* update's load and its write.
UpdateDiscountOnlySetsLoaded ==
    [][\A u \in Updaters :
          (WriteOk(u) /\ DOMAIN upd[u].body = {"discountPercent"}) =>
              LET id == upd[u].id
                  loaded == upd[u].loaded
              IN /\ perks'[id].discountPercent = upd[u].body.discountPercent
                 /\ \A k \in {"title", "description", "category", "merchant"} :
                       IF Has(loaded, k) THEN Has(perks'[id], k) /\ perks'[id][k] = loaded[k]
                       ELSE SameField(perks'[id], perks[id], k)
                 /\ \A k \in {"_id", "createdBy", "createdAt"} :
                       SameField(perks'[id], perks[id], k)
                 /\ DOMAIN perks'[id] = DOMAIN perks[id]
                 /\ \A j \in PerkIds \ {id} : perks'[j] = perks[j]
                 /\ perks[id] = loaded =>
                       perks' = [perks EXCEPT ![id] =
                                    [@ EXCEPT !.discountPercent =
                                                  upd[u].body.discountPercent]]]_vars

\* an update of discountPercent alone succeeded on a perk that has an owner
DiscountOnlyUpdated ==
    \E u \in Updaters :
        /\ upd[u].pc = "done" /\ upd[u].status = 200
        /\ DOMAIN upd[u].body = {"discountPercent"}
        /\ upd[u].loaded.discountPercent # upd[u].body.discountPercent
        /\ Has(upd[u].perk, "createdBy")
        /\ upd[u].perk.discountPercent = upd[u].body.discountPercent

\* C6: the step that answers a create or an update with 400 leaves the Perks
\* collection as it is, and an update is answered 400 only before its write.
ValidateBeforeWrite ==
    /\ [][(Answers(last') /\ last'.op = "create" /\ last'.status = 400)
          => perks' = perks]_vars
    /\ [][\A u \in Updaters :
             (Answers(upd'[u]) /\ upd'[u].pc = "done" /\ upd'[u].status = 400)
                 => perks' = perks]_vars
    /\ [](\A u \in Updaters :
              (upd[u].pc = "done" /\ upd[u].status = 400) => upd[u].stage = "load")

\* a create and an update have both been answered 400 with a perk in the store
BothAnswered400 ==
    /\ last.op = "create" /\ last.status = 400
    /\ \E u \in Updaters :
          /\ upd[u].pc = "done" /\ upd[u].status = 400
          /\ perks[upd[u].id] = upd[u].loaded

\* C7: a create or update payload that carries createdBy is answered 400, and an
\* update never changes the stored owner.
OwnerFieldRejected ==
    /\ (last.op = "create" /\ Has(last.body, "createdBy")) => last.status = 400
    /\ \A u \in Updaters :
          (upd[u].pc # "idle" /\ Has(upd[u].body, "createdBy") /\ Has(upd[u], "loaded")) =>
              (upd[u].pc = "done" /\ upd[u].status = 400)

\* C8: an update whose perk was deleted between its load and its write is
\* answered 404 and its write leaves the perk absent.
VanishedUpdateIs404 ==
    [][\A u \in Updaters :
          (upd[u].pc = "writing" /\ upd'[u].pc = "done" /\ perks[upd[u].id] = NoPerk) =>
              /\ upd'[u].status = 404
              /\ perks' = perks]_vars

\* an update that had loaded its perk found it deleted at its write
UpdateLostItsPerk ==
    \E u \in Updaters :
        /\ upd[u].pc = "done" /\ upd[u].stage = "write" /\ upd[u].status = 404
        /\ upd[u].loaded # NoPerk
        /\ perks[upd[u].id] = NoPerk
        /\ last.op = "delete" /\ last.id = upd[u].id /\ last.status = 200
        /\ last.n > upd[u].n

\* C9: a create without a caller identity (no user, or a user without id) is
\* answered 401 and inserts nothing, so no perk inserted by a create lacks an
\* owner. Validation runs first in the handler, so a 400 for the payload is let
\* through here.
CreateRequiresIdentity ==
    /\ (last.op = "create" /\ ~Has(last.user, "id") /\ last.status # 400) =>
          last.status = 401
    /\ \A id \in PerkIds : origin[id] # NoUser => Has(origin[id], "id")

\* C10: the write of an update sets every schema field of the document it loaded
\* that its payload did not name back to the loaded value, whatever was written
\* to the perk since the load.
WriteRestoresLoadedFields ==
    [][\A u \in Updaters :
          WriteOk(u) =>
              \A k \in (DOMAIN upd[u].loaded \cap SchemaKeys) \ DOMAIN upd[u].body :
                  /\ Has(perks'[upd[u].id], k)
                  /\ perks'[upd[u].id][k] = upd[u].loaded[k]]_vars

\* two updates of one perk with disjoint payloads both answered 200, and the perk
\* shows only the second one's field: the first one's category is lost
LostUpdate ==
    \E u, w \in Updaters :
        /\ u # w
        /\ upd[u].pc = "done" /\ upd[u].status = 200
        /\ upd[w].pc = "done" /\ upd[w].status = 200
        /\ upd[u].id = upd[w].id
        /\ DOMAIN upd[u].body = {"category"}
        /\ DOMAIN upd[w].body = {"discountPercent"}
        /\ upd[u].perk.category = upd[u].body.category
        /\ perks[upd[u].id] # NoPerk
        /\ perks[upd[u].id].category = upd[w].loaded.category
        /\ perks[upd[u].id].category # upd[u].body.category
        /\ perks[upd[u].id].discountPercent = upd[w].body.discountPercent

====
